---- MODULE Spec2Model ----
(***************************************************************************)
(* Embedded terminal panel of Bbiribarabu: the pty session (PtyShell), its *)
(* relay thread (spawn_reader_thread), the session facade (PtyTerminal)    *)
(* and the Screen Model the facade drives (vt100::Parser, a dependency     *)
(* whose source is not part of the repository: it is modelled from the     *)
(* specification, section 4.2).                                            *)
(***************************************************************************)
EXTENDS Integers, Sequences, FiniteSets, TLC

(* ------------------------------ bounds -------------------------------- *)
\* number of successful reads the relay thread performs in a run
MaxReads == 2
\* number of consecutive failed reads before a successful one
MaxErrs == 2
\* scrollback capacity of the Screen Model (10_000 in PtyTerminal::spawn,
\* scaled down so that eviction happens within MaxReads chunks)
ScrollbackCap == 2
\* largest usize (2^64 - 1 on the target, scaled down to four bits)
UsizeMax == 15
\* chunks the relay thread can have queued ahead of one poll_output
MaxQueue == 1
\* max_lines of TerminalRunner (500 in TerminalRunner::new, scaled down so
\* that the buffer fills within a few lines)
MaxLines == 3

(* ------------------------------ inputs -------------------------------- *)
LF  == 10
CR  == 13
ESC == 27

\* chunks the shell can produce: 'a', CR LF, "ESC [" (a CSI introducer cut
\* off at the chunk boundary) and "9C" (CSI parameter 9 + cursor-forward when
\* it follows "ESC [", two printable glyphs otherwise)
Chunks == { <<97>>, <<CR, LF>>, <<ESC, 91>>, <<57, 67>> }

\* byte sequences the UI writes to the shell (encode_key_event results)
KeyBytes == { <<97>>, <<CR>> }

\* heights and widths of the terminal panel (border included) that the layout
\* hands out; a host terminal of 8 rows or fewer leaves a panel of height <= 2
AreaHeights == { 2, 3, 4 }
AreaWidths == { 4 }

\* line counts of the scroll key bindings (Ctrl+Up/Down: 1, PageUp/Down: 5)
ScrollAmounts == { 1, 5 }

(* ------------------------------ helpers ------------------------------- *)
Max(a, b) == IF a >= b THEN a ELSE b
Min(a, b) == IF a <= b THEN a ELSE b

\* u16::saturating_sub / usize::saturating_sub
saturating_sub(a, b) == IF a >= b THEN a - b ELSE 0

\* usize::saturating_add
saturating_add(a, b) == Min(a + b, UsizeMax)

IsPrefix(s, t) == Len(s) <= Len(t) /\ SubSeq(t, 1, Len(s)) = s

RECURSIVE Flatten(_)
Flatten(q) == IF q = <<>> THEN <<>> ELSE Head(q) \o Flatten(Tail(q))

\* compute_layout: the inner area of the terminal panel is the panel minus
\* its one-cell border on each side
term_inner(dim) == saturating_sub(dim, 2)

(* --------------------------- Screen Model ----------------------------- *)
\* vt100::Parser::new(rows, cols, scrollback_len): blank grid, cursor at
\* the origin, empty scrollback, live viewport.  anchor is the one point the
\* specification leaves open: whether a viewport that is scrolled into
\* history stays on the same content (offset grows with the scrollback) or
\* on the same distance from the live bottom when rows are evicted.
\* Rows are told apart by tags: hist holds the tags of the scrollback rows,
\* oldest first (sb is its length), next is the tag of the row that leaves
\* the grid next, and tags are counted modulo marks; with marks = 1 the rows
\* are not told apart.
NewParser(rows, cols, anchor) ==
    [ rows |-> rows, cols |-> cols, row |-> 0, col |-> 0, wrap |-> FALSE,
      sb |-> 0, off |-> 0, pushed |-> FALSE, pst |-> "ground", param |-> 0,
      priv |-> FALSE, hide |-> FALSE, anchor |-> anchor,
      hist |-> << >>, next |-> 0, marks |-> 1,
      alt |-> FALSE, attr |-> 0 ]

\* the rows of the primary grid, top first, by their tags: the top row is
\* the one that leaves the grid next, the rows below it follow in order
PrimaryGrid(s) == [ i \in 1..s.rows |-> (s.next + i - 1) % s.marks ]

push_evicts_newest(hist, tag) ==
    IF Len(hist) >= ScrollbackCap
    THEN Append(SubSeq(hist, 1, Len(hist) - 1), tag)
    ELSE Append(hist, tag)

\* a row enters the scrollback: appended as the newest row, and the oldest
\* row is dropped when the scrollback is at capacity
push(hist, tag) ==
    IF Len(hist) >= ScrollbackCap
    THEN Append(Tail(hist), tag)
    ELSE Append(hist, tag)

ClampRow(s, r) == Max(0, Min(r, s.rows - 1))
ClampCol(s, c) == Max(0, Min(c, s.cols - 1))

ScrollGrid_shifts_live(s) ==
    IF s.rows = 0 \/ s.alt THEN s
    ELSE LET h == push(s.hist, s.next)
             len == Len(h)
         IN  [s EXCEPT !.sb = len, !.hist = h,
                       !.next = (s.next + 1) % s.marks,
                       !.pushed = TRUE, !.off = Min(s.off + 1, len)]

ScrollGrid_alt_pushes(s) ==
    IF s.rows = 0 THEN s
    ELSE LET h == push(s.hist, s.next)
         IN  [s EXCEPT !.sb = Len(h), !.hist = h,
                       !.next = (s.next + 1) % s.marks, !.pushed = TRUE]

\* the grid scrolls up one row: the row leaving the top of the primary grid
\* is appended to scrollback, FIFO-evicting at capacity; the alternate grid
\* scrolls without touching the scrollback or the primary grid
ScrollGrid(s) ==
    IF s.rows = 0 \/ s.alt THEN s
    ELSE LET h == push(s.hist, s.next)
             len == Len(h)
         IN  [s EXCEPT !.sb = len,
                       !.hist = h,
                       !.next = (s.next + 1) % s.marks,
                       !.pushed = TRUE,
                       !.off = IF s.off > 0 /\ s.anchor
                               THEN Min(s.off + 1, len) ELSE s.off]

\* cursor row advances; at the bottom margin the grid scrolls instead
RowAdvance(s) ==
    IF s.row >= s.rows - 1 THEN ScrollGrid(s) ELSE [s EXCEPT !.row = s.row + 1]

\* LF: a newline after a full line completes the pending wrap (column 0 of
\* the next row), otherwise only the row advances
LineFeed(s) ==
    IF s.wrap THEN [RowAdvance(s) EXCEPT !.col = 0, !.wrap = FALSE]
    ELSE RowAdvance(s)

CarriageReturn(s) == [s EXCEPT !.col = 0, !.wrap = FALSE]

PrintChar_eager_wrap(s) ==
    IF s.col >= s.cols - 1 THEN [RowAdvance(s) EXCEPT !.col = 0]
    ELSE [s EXCEPT !.col = s.col + 1]

\* printable glyph: written at the cursor, cursor advances one column,
\* wrapping to column 0 of the next row at the right margin
PrintChar(s) ==
    LET t == IF s.wrap THEN [RowAdvance(s) EXCEPT !.col = 0, !.wrap = FALSE]
             ELSE s
    IN  IF t.col >= t.cols - 1 THEN [t EXCEPT !.wrap = TRUE]
        ELSE [t EXCEPT !.col = t.col + 1]

\* mode sequences: CSI ? 25 l hides the cursor, CSI ? 25 h shows it,
\* CSI ? 1049 h enters the alternate screen, CSI ? 1049 l returns to the
\* primary one; any other private sequence is consumed without effect
ModeDispatch(s, final) ==
    LET g == [s EXCEPT !.pst = "ground", !.param = 0, !.priv = FALSE]
    IN  CASE s.param = 25 /\ final = 108 -> [g EXCEPT !.hide = TRUE]
          [] s.param = 25 /\ final = 104 -> [g EXCEPT !.hide = FALSE]
          [] s.param = 1049 /\ final = 104 -> [g EXCEPT !.alt = TRUE]
          [] s.param = 1049 /\ final = 108 -> [g EXCEPT !.alt = FALSE]
          [] OTHER -> g

\* style sequences: CSI 1 m sets bold, CSI 0 m (or CSI m) resets the current
\* attributes; other parameters are not told apart here
SgrDispatch(s) ==
    CASE s.param = 1 -> [s EXCEPT !.attr = 1]
      [] s.param = 0 -> [s EXCEPT !.attr = 0]
      [] OTHER -> s

\* cursor-positioning sequences, result clamped to the grid
CsiDispatch(s, final) ==
    LET n == Max(s.param, 1)
        g == [s EXCEPT !.pst = "ground", !.param = 0]
    IN  CASE final = 65 -> [g EXCEPT !.row = ClampRow(s, s.row - n), !.wrap = FALSE]
          [] final = 66 -> [g EXCEPT !.row = ClampRow(s, s.row + n), !.wrap = FALSE]
          [] final = 67 -> [g EXCEPT !.col = ClampCol(s, s.col + n), !.wrap = FALSE]
          [] final = 68 -> [g EXCEPT !.col = ClampCol(s, s.col - n), !.wrap = FALSE]
          [] final = 72 -> [g EXCEPT !.row = ClampRow(s, n - 1), !.col = 0,
                                     !.wrap = FALSE]
          [] final = 109 -> [SgrDispatch(s) EXCEPT !.pst = "ground", !.param = 0]
          [] OTHER -> g

IsDigit(b) == b >= 48 /\ b <= 57

ProcessByte_prints_unknown(s, b) ==
    CASE b = LF  -> LineFeed(s)
      [] b = CR  -> CarriageReturn(s)
      [] b = ESC -> [s EXCEPT !.pst = "esc", !.param = 0, !.priv = FALSE]
      [] OTHER ->
           CASE s.pst = "ground" -> PrintChar(s)
             [] s.pst = "esc" ->
                  IF b = 91 THEN [s EXCEPT !.pst = "csi", !.param = 0]
                  ELSE PrintChar([s EXCEPT !.pst = "ground"])
             [] OTHER ->
                  CASE IsDigit(b) ->
                         [s EXCEPT !.param = Min(s.param * 10 + (b - 48), 9999)]
                    [] b = 63 -> [s EXCEPT !.priv = TRUE]
                    [] s.priv -> ModeDispatch(s, b)
                    [] OTHER -> CsiDispatch(s, b)

\* one byte through the parser
ProcessByte(s, b) ==
    CASE b = LF  -> LineFeed(s)
      [] b = CR  -> CarriageReturn(s)
      [] b = ESC -> [s EXCEPT !.pst = "esc", !.param = 0, !.priv = FALSE]
      [] OTHER ->
           CASE s.pst = "ground" -> PrintChar(s)
             [] s.pst = "esc" ->
                  IF b = 91 THEN [s EXCEPT !.pst = "csi", !.param = 0]
                  ELSE [s EXCEPT !.pst = "ground"]
             [] OTHER ->
                  CASE IsDigit(b) ->
                         [s EXCEPT !.param = Min(s.param * 10 + (b - 48), 9999)]
                    [] b = 63 -> [s EXCEPT !.priv = TRUE]
                    [] s.priv -> ModeDispatch(s, b)
                    [] OTHER -> CsiDispatch(s, b)

\* Parser::process(bytes)
RECURSIVE process(_, _)
process(s, bytes) ==
    IF bytes = <<>> THEN s
    ELSE process(ProcessByte(s, Head(bytes)), Tail(bytes))

\* Parser::set_size(rows, cols): truncate / pad the grid, keep the
\* scrollback, keep the cursor inside the grid; a no-op when the size is
\* the current one
set_size(s, rows, cols) ==
    IF s.rows = rows /\ s.cols = cols THEN s
    ELSE [s EXCEPT !.rows = rows, !.cols = cols,
                   !.row = Max(0, Min(s.row, rows - 1)),
                   !.col = Max(0, Min(s.col, cols - 1)),
                   !.wrap = FALSE]

\* Parser::set_scrollback(n): offset clamped to the available history
set_scrollback(s, n) == [s EXCEPT !.off = Min(n, s.sb)]

\* bookkeeping of the model: pushed records that a row entered the scrollback
\* during the current (or latest) poll_output; every facade call clears it
Unmark(s) == [s EXCEPT !.pushed = FALSE]

(* ------------------------- Session Facade ----------------------------- *)
scroll_offset(s) == s.off

size(s) == <<s.rows, s.cols>>

needs_resize_always(s, rows, cols) == TRUE

needs_resize_cols_only(s, rows, cols) == s.cols # cols

\* ensure_size: the size test that guards the resize
needs_resize(s, rows, cols) == s.rows # rows \/ s.cols # cols

ensure_size_resets_live(s, rows, cols) ==
    IF needs_resize(s, rows, cols)
    THEN set_scrollback(set_size(s, rows, cols), 0)
    ELSE s

ensure_size(s, rows, cols) ==
    IF needs_resize(s, rows, cols)
    THEN LET offset == scroll_offset(s)
         IN  set_scrollback(set_size(s, rows, cols), offset)
    ELSE s

\* ensure_size: the calls it makes on the shell and the parser, in order
ensure_size_calls(s, rows, cols) ==
    IF needs_resize(s, rows, cols)
    THEN << "shell.resize", "parser.set_size", "parser.set_scrollback" >>
    ELSE << >>

write_unwrap(accepted) == IF accepted THEN "returned" ELSE "panicked"

\* PtyShell::write: the results of write_all and flush are discarded, the
\* call returns whether or not the shell took the bytes
write(accepted) == "returned"

cursor_state_both(s) ==
    IF scroll_offset(s) > 0 /\ s.hide THEN << >>
    ELSE << [draw |-> TRUE, row |-> s.row, col |-> s.col] >>

\* PtyTerminal::cursor_state: << >> is None, << c >> is Some(c)
cursor_state(s) ==
    IF scroll_offset(s) > 0 \/ s.hide THEN << >>
    ELSE << [draw |-> TRUE, row |-> s.row, col |-> s.col] >>

send_bytes_always_live(s) == set_scrollback(s, 0)

send_bytes(s) ==
    IF scroll_offset(s) = 0 THEN set_scrollback(s, 0) ELSE s

scroll_up_wrapping(s, lines) ==
    set_scrollback(s, (scroll_offset(s) + lines) % (UsizeMax + 1))

scroll_up(s, lines) == set_scrollback(s, saturating_add(scroll_offset(s), lines))

scroll_down_adds(s, lines) == set_scrollback(s, saturating_add(scroll_offset(s), lines))

scroll_down_one_row(s, lines) == set_scrollback(s, saturating_sub(scroll_offset(s), 1))

scroll_down_wrapping(s, lines) == set_scrollback(s, scroll_offset(s) - lines)

scroll_down(s, lines) == set_scrollback(s, saturating_sub(scroll_offset(s), lines))

try_read_newest(q) == [chunk |-> q[Len(q)], rest |-> SubSeq(q, 1, Len(q) - 1)]

\* PtyShell::try_read: the oldest queued chunk and the chunks left behind it
try_read(q) == [chunk |-> Head(q), rest |-> Tail(q)]

\* poll_output as one call: every queued chunk through the parser, oldest
\* first
RECURSIVE drain(_, _)
drain(s, q) ==
    IF q = << >> THEN s
    ELSE LET r == try_read(q) IN drain(process(s, r.chunk), r.rest)

(* ------------------------------- spawn -------------------------------- *)
\* the fallible steps of PtyShell::spawn, in program order
SpawnSteps ==
    << "openpty", "spawn_command", "try_clone_reader", "spawn_reader_thread",
       "take_writer" >>

\* steps that can return an error ("none": every step succeeds)
SpawnFailures == { "none", "openpty", "spawn_command", "try_clone_reader", "take_writer" }

\* what is left when the steps run in the given order and failAt fails: the
\* `?` returns at once and drops every local (pty pair, child handle,
\* receiver); a thread that was already started keeps running, a shell that
\* was already launched is not killed by dropping its handle
spawn_in(order, failAt) ==
    LET at(step) == CHOOSE i \in 1..Len(order) : order[i] = step
        done(step) == failAt = "none" \/ at(step) < at(failAt)
    IN  [ failAt |-> failAt,
          result |-> IF failAt = "none" THEN "Ok" ELSE "Err",
          thread |-> done("spawn_reader_thread"),
          shell  |-> done("spawn_command"),
          pty    |-> failAt = "none",
          child  |-> failAt = "none" ]

spawn_thread_first(failAt) ==
    spawn_in(<< "openpty", "try_clone_reader", "spawn_reader_thread",
                "spawn_command", "take_writer" >>, failAt)

\* PtyShell::spawn / PtyTerminal::spawn
spawn(failAt) == spawn_in(SpawnSteps, failAt)

(* --------------------------- relay thread ----------------------------- *)
can_send_bounded(q) == Len(q) < 1

\* mpsc::channel() is unbounded: send never waits for the consumer
can_send(q) == TRUE

after_read_eof_continues(result) ==
    CASE result = "eof"  -> "read"
      [] result = "data" -> "send"
      [] OTHER           -> "sleep"

after_read_eof_sleeps(result) ==
    CASE result = "data" -> "send"
      [] OTHER           -> "sleep"

after_read_err_breaks(result) ==
    CASE result = "data" -> "send"
      [] OTHER           -> "done"

after_send_err_breaks(delivered) == IF delivered THEN "read" ELSE "done"

\* where the loop goes after tx.send returned: its result is discarded
after_send(delivered) == "read"

\* where the loop goes after reader.read returned
after_read(result) ==
    CASE result = "eof"  -> "done"
      [] result = "data" -> "send"
      [] OTHER           -> "sleep"

(* ------------------------------ state --------------------------------- *)
VARIABLES
    relayPc,     \* relay thread: "read", "send", "sleep", "done"
    buf,         \* chunk read and not yet sent (buf[..n])
    lastRead,    \* outcome of the latest read: "none", "data", "err", "eof"
    nReads,      \* successful reads so far
    nErrs,       \* failed reads since the latest chunk was sent
    ptyState,    \* "open" | "closed" (shell exited or session torn down)
    queue,       \* chunks in the channel
    readLog,     \* every byte the relay thread has read, in order
    fedLog,      \* every byte fed to the Screen Model, in order
    scr,         \* Screen Model
    ptySize,     \* size last requested of the pty
    uiPc,        \* UI thread: "idle", "polling", "exited"; "failed": no session
    lastOp,      \* latest facade call of the UI thread
    sendOffset,  \* offset before the latest send_bytes call, while that call
                 \* or the poll_output following it is the latest call
    sp,          \* how spawn went: spawn(failAt)
    call,        \* the latest facade call: argument, offset before it, what
                 \* it asked of the shell and the parser, latest size asked
    prev,        \* when the latest call is scroll_down and the call before
                 \* it was scroll_up: that scroll_up's name, argument and
                 \* offset before it
    key,         \* the key event handed to encode_key_event last
    out          \* what encode_key_event returned for it

vars == << relayPc, buf, lastRead, nReads, nErrs, ptyState, queue, readLog,
           fedLog, scr, ptySize, uiPc, lastOp, sendOffset, sp, call, prev,
           key, out >>

\* bookkeeping of the facade calls, kept by the sequential view of the facade
callVars == << sp, call, prev >>

\* the key encoder's input and output
keyVars == << key, out >>

\* no key event yet
NoKey == [ kind |-> "none", code |-> "none", c |-> 0, n |-> 0, mods |-> { } ]

NoCall(rows, cols) ==
    [ n |-> 0, off |-> 0, wrote |-> "none", calls |-> << >>,
      req |-> << rows, cols >> ]

NoPrev == [ op |-> "none", n |-> 0, off |-> 0 ]

\* value of call where the calls are not recorded
Untracked == NoCall(0, 0)

relayVars == << relayPc, buf, lastRead, nReads, nErrs, readLog >>
uiVars == << fedLog, scr, ptySize, uiPc, lastOp, sendOffset >>

alive == uiPc # "exited"

\* PtyTerminal::spawn(repo_root, rows, cols) with the size of the first layout
Init ==
    \E h \in AreaHeights, w \in AreaWidths, anchor \in BOOLEAN :
        /\ scr = NewParser(term_inner(h), term_inner(w), anchor)
        /\ ptySize = << term_inner(h), term_inner(w) >>
        /\ relayPc = "read"
        /\ buf = <<>>
        /\ lastRead = "none"
        /\ nReads = 0
        /\ nErrs = 0
        /\ ptyState = "open"
        /\ queue = <<>>
        /\ readLog = <<>>
        /\ fedLog = <<>>
        /\ uiPc = "idle"
        /\ lastOp = "spawn"
        /\ sendOffset = -1
        /\ sp = spawn("none")
        /\ call = Untracked
        /\ prev = NoPrev
        /\ key = NoKey
        /\ out = << >>

(* ----------------------- relay thread actions ------------------------- *)
\* reader.read(&mut buf) returns Ok(n), n > 0
RelayReadData ==
    /\ relayPc = "read"
    /\ ptyState = "open"
    /\ nReads < MaxReads
    /\ \E c \in Chunks :
          /\ buf' = c
          /\ readLog' = readLog \o c
    /\ nReads' = nReads + 1
    /\ lastRead' = "data"
    /\ relayPc' = after_read("data")
    /\ UNCHANGED << nErrs, ptyState, queue >>
    /\ UNCHANGED uiVars
    /\ UNCHANGED callVars
    /\ UNCHANGED keyVars

\* reader.read returns Err(_)
RelayReadErr ==
    /\ relayPc = "read"
    /\ ptyState = "open"
    /\ nErrs < MaxErrs
    /\ nErrs' = nErrs + 1
    /\ lastRead' = "err"
    /\ relayPc' = after_read("err")
    /\ UNCHANGED << buf, nReads, readLog, ptyState, queue >>
    /\ UNCHANGED uiVars
    /\ UNCHANGED callVars
    /\ UNCHANGED keyVars

\* reader.read returns Ok(0)
RelayReadEof ==
    /\ relayPc = "read"
    /\ ptyState = "closed"
    /\ lastRead' = "eof"
    /\ relayPc' = after_read("eof")
    /\ UNCHANGED << buf, nReads, nErrs, readLog, ptyState, queue >>
    /\ UNCHANGED uiVars
    /\ UNCHANGED callVars
    /\ UNCHANGED keyVars

\* let _ = tx.send(buf[..n].to_vec()): the chunk is queued, or discarded
\* when the receiver is gone; then the loop reads again
RelaySend ==
    /\ relayPc = "send"
    /\ can_send(queue)
    /\ queue' = IF alive THEN Append(queue, buf) ELSE queue
    /\ buf' = <<>>
    /\ nErrs' = 0
    /\ relayPc' = after_send(alive)
    /\ UNCHANGED << lastRead, nReads, readLog, ptyState >>
    /\ UNCHANGED uiVars
    /\ UNCHANGED callVars
    /\ UNCHANGED keyVars

\* thread::sleep(5ms) is over
RelayWake ==
    /\ relayPc = "sleep"
    /\ relayPc' = "read"
    /\ UNCHANGED << buf, lastRead, nReads, nErrs, readLog, ptyState, queue >>
    /\ UNCHANGED uiVars
    /\ UNCHANGED callVars
    /\ UNCHANGED keyVars

Relay == RelayReadData \/ RelayReadErr \/ RelayReadEof \/ RelaySend \/ RelayWake

\* the shell exits on its own: the slave side of the pty closes
ChildExit ==
    /\ ptyState = "open"
    /\ ptyState' = "closed"
    /\ UNCHANGED << queue >>
    /\ UNCHANGED relayVars
    /\ UNCHANGED uiVars
    /\ UNCHANGED callVars
    /\ UNCHANGED keyVars

(* ------------------------- UI thread actions -------------------------- *)
EnsureSize ==
    /\ uiPc = "idle"
    /\ \E h \in AreaHeights, w \in AreaWidths :
          LET rows == term_inner(h)
              cols == term_inner(w)
          IN  /\ scr' = ensure_size(Unmark(scr), rows, cols)
              /\ ptySize' = IF size(scr) # << rows, cols >>
                            THEN << rows, cols >> ELSE ptySize
    /\ lastOp' = "ensure_size"
    /\ sendOffset' = -1
    /\ UNCHANGED << fedLog, uiPc, ptyState, queue >>
    /\ UNCHANGED relayVars
    /\ UNCHANGED callVars
    /\ UNCHANGED keyVars

SendBytes ==
    /\ uiPc = "idle"
    /\ \E bytes \in KeyBytes :
          scr' = send_bytes(Unmark(scr))
    /\ lastOp' = "send_bytes"
    /\ sendOffset' = scr.off
    /\ UNCHANGED << fedLog, ptySize, uiPc, ptyState, queue >>
    /\ UNCHANGED relayVars
    /\ UNCHANGED callVars
    /\ UNCHANGED keyVars

\* poll_output is entered
PollBegin ==
    /\ uiPc = "idle"
    /\ uiPc' = "polling"
    /\ lastOp' = "poll_output"
    /\ sendOffset' = IF lastOp = "send_bytes" THEN sendOffset ELSE -1
    /\ scr' = Unmark(scr)
    /\ UNCHANGED << fedLog, ptySize, ptyState, queue >>
    /\ UNCHANGED relayVars
    /\ UNCHANGED callVars
    /\ UNCHANGED keyVars

\* while let Some(bytes) = self.shell.try_read() { self.parser.process(&bytes) }
PollStep ==
    /\ uiPc = "polling"
    /\ queue # <<>>
    /\ LET r == try_read(queue)
       IN  /\ queue' = r.rest
           /\ scr' = process(scr, r.chunk)
           /\ fedLog' = fedLog \o r.chunk
    /\ UNCHANGED << ptySize, uiPc, lastOp, sendOffset, ptyState >>
    /\ UNCHANGED relayVars
    /\ UNCHANGED callVars
    /\ UNCHANGED keyVars

\* try_read() returned None: poll_output returns
PollReturn ==
    /\ uiPc = "polling"
    /\ queue = <<>>
    /\ uiPc' = "idle"
    /\ UNCHANGED << fedLog, scr, ptySize, lastOp, sendOffset, ptyState, queue >>
    /\ UNCHANGED relayVars
    /\ UNCHANGED callVars
    /\ UNCHANGED keyVars

ScrollUp ==
    /\ uiPc = "idle"
    /\ \E n \in ScrollAmounts : scr' = scroll_up(Unmark(scr), n)
    /\ lastOp' = "scroll_up"
    /\ sendOffset' = -1
    /\ UNCHANGED << fedLog, ptySize, uiPc, ptyState, queue >>
    /\ UNCHANGED relayVars
    /\ UNCHANGED callVars
    /\ UNCHANGED keyVars

ScrollDown ==
    /\ uiPc = "idle"
    /\ \E n \in ScrollAmounts : scr' = scroll_down(Unmark(scr), n)
    /\ lastOp' = "scroll_down"
    /\ sendOffset' = -1
    /\ UNCHANGED << fedLog, ptySize, uiPc, ptyState, queue >>
    /\ UNCHANGED relayVars
    /\ UNCHANGED callVars
    /\ UNCHANGED keyVars

\* the UI exits: PtyTerminal is dropped, which closes the write handle and
\* the pty master and drops the receiver with whatever is still queued; the
\* relay thread's JoinHandle was never kept, so nothing is joined
Teardown ==
    /\ uiPc = "idle"
    /\ uiPc' = "exited"
    /\ ptyState' = "closed"
    /\ queue' = <<>>
    /\ UNCHANGED << fedLog, scr, ptySize, lastOp, sendOffset >>
    /\ UNCHANGED relayVars
    /\ UNCHANGED callVars
    /\ UNCHANGED keyVars

Next ==
    \/ RelayReadData
    \/ RelayReadErr
    \/ RelayReadEof
    \/ RelaySend
    \/ RelayWake
    \/ ChildExit
    \/ EnsureSize
    \/ SendBytes
    \/ PollBegin
    \/ PollStep
    \/ PollReturn
    \/ ScrollUp
    \/ ScrollDown
    \/ Teardown

Spec == Init /\ [][Next]_vars

\* the relay thread is an OS thread of its own: it keeps being scheduled
FairSpec == Spec /\ WF_vars(Relay)

(* ------------------- the facade, one call at a time ------------------- *)
\* The same facade driven call by call, each call taken as a whole and
\* recorded in call / prev; the relay thread is reduced to the chunks it
\* leaves in the queue, and spawn may fail.

\* chunks the shell can produce here: "a" LF (a glyph and a line feed),
\* "ESC [ ? 2 5 l" (hide the cursor) and "ESC [ ? 2 5 h" (show it)
FacadeChunks ==
    { << 97, LF >>, << ESC, 91, 63, 50, 53, 108 >>,
      << ESC, 91, 63, 50, 53, 104 >> }

\* arguments given to scroll_up / scroll_down: the key bindings' 1 and 5,
\* 2 (more than one row and within the scrollback) and the largest usize
ScrollArgs == ScrollAmounts \cup { 2, UsizeMax }

\* PtyTerminal::spawn(repo_root, rows, cols), failing at failAt or not at all
FacadeInit ==
    \E failAt \in SpawnFailures, h \in AreaHeights, w \in AreaWidths,
       anchor \in BOOLEAN :
        /\ sp = spawn(failAt)
        /\ uiPc = IF spawn(failAt).result = "Ok" THEN "idle" ELSE "failed"
        /\ scr = NewParser(term_inner(h), term_inner(w), anchor)
        /\ ptySize = << term_inner(h), term_inner(w) >>
        /\ call = NoCall(term_inner(h), term_inner(w))
        /\ prev = NoPrev
        /\ relayPc = "read"
        /\ buf = <<>>
        /\ lastRead = "none"
        /\ nReads = 0
        /\ nErrs = 0
        /\ ptyState = "open"
        /\ queue = <<>>
        /\ readLog = <<>>
        /\ fedLog = <<>>
        /\ lastOp = "spawn"
        /\ sendOffset = -1
        /\ key = NoKey
        /\ out = << >>

\* what scroll_down records of the call before it
Recorded ==
    IF lastOp = "scroll_up" THEN [ op |-> lastOp, n |-> call.n, off |-> call.off ]
    ELSE NoPrev

\* the relay thread has read a chunk and sent it
FacadeRelay ==
    /\ uiPc = "idle"
    /\ ptyState = "open"
    /\ Len(queue) < MaxQueue
    /\ \E c \in FacadeChunks : queue' = Append(queue, c)
    /\ UNCHANGED << ptyState, callVars >>
    /\ UNCHANGED relayVars
    /\ UNCHANGED uiVars
    /\ UNCHANGED keyVars

FacadeEnsureSize ==
    /\ uiPc = "idle"
    /\ \E h \in AreaHeights, w \in AreaWidths :
          LET rows == term_inner(h)
              cols == term_inner(w)
          IN  /\ scr' = ensure_size(Unmark(scr), rows, cols)
              /\ ptySize' = IF needs_resize(scr, rows, cols)
                            THEN << rows, cols >> ELSE ptySize
              /\ call' = [ n |-> 0, off |-> scr.off, wrote |-> "none",
                           calls |-> ensure_size_calls(scr, rows, cols),
                           req |-> << rows, cols >> ]
    /\ prev' = NoPrev
    /\ lastOp' = "ensure_size"
    /\ UNCHANGED << fedLog, uiPc, ptyState, queue, sp, sendOffset >>
    /\ UNCHANGED relayVars
    /\ UNCHANGED keyVars

\* send_bytes; the write reaches the shell, or fails when the shell is gone
FacadeSendBytes ==
    /\ uiPc = "idle"
    /\ \E bytes \in KeyBytes,
          accepted \in (IF ptyState = "open" THEN { TRUE } ELSE { FALSE }) :
          /\ scr' = send_bytes(Unmark(scr))
          /\ uiPc' = IF write(accepted) = "returned" THEN "idle" ELSE "panicked"
          /\ call' = [ n |-> 0, off |-> scr.off,
                       wrote |-> IF accepted THEN "ok" ELSE "failed",
                       calls |-> << "shell.write" >>, req |-> call.req ]
    /\ prev' = NoPrev
    /\ lastOp' = "send_bytes"
    /\ UNCHANGED << fedLog, ptySize, ptyState, queue, sp, sendOffset >>
    /\ UNCHANGED relayVars
    /\ UNCHANGED keyVars

FacadePollOutput ==
    /\ uiPc = "idle"
    /\ scr' = drain(Unmark(scr), queue)
    /\ queue' = << >>
    /\ call' = [ n |-> Len(queue), off |-> scr.off, wrote |-> "none",
                 calls |-> << >>, req |-> call.req ]
    /\ prev' = NoPrev
    /\ lastOp' = "poll_output"
    /\ UNCHANGED << fedLog, ptySize, uiPc, ptyState, sp, sendOffset >>
    /\ UNCHANGED relayVars
    /\ UNCHANGED keyVars

FacadeScrollUp ==
    /\ uiPc = "idle"
    /\ \E n \in ScrollArgs :
          /\ scr' = scroll_up(Unmark(scr), n)
          /\ call' = [ n |-> n, off |-> scr.off, wrote |-> "none",
                       calls |-> << >>, req |-> call.req ]
    /\ prev' = NoPrev
    /\ lastOp' = "scroll_up"
    /\ UNCHANGED << fedLog, ptySize, uiPc, ptyState, queue, sp, sendOffset >>
    /\ UNCHANGED relayVars
    /\ UNCHANGED keyVars

FacadeScrollDown ==
    /\ uiPc = "idle"
    /\ \E n \in ScrollArgs :
          /\ scr' = scroll_down(Unmark(scr), n)
          /\ call' = [ n |-> n, off |-> scr.off, wrote |-> "none",
                       calls |-> << >>, req |-> call.req ]
    /\ prev' = Recorded
    /\ lastOp' = "scroll_down"
    /\ UNCHANGED << fedLog, ptySize, uiPc, ptyState, queue, sp, sendOffset >>
    /\ UNCHANGED relayVars
    /\ UNCHANGED keyVars

\* the shell exits on its own while the session is in use
FacadeChildExit ==
    /\ uiPc = "idle"
    /\ ChildExit

FacadeNext ==
    \/ FacadeRelay
    \/ FacadeEnsureSize
    \/ FacadeSendBytes
    \/ FacadePollOutput
    \/ FacadeScrollUp
    \/ FacadeScrollDown
    \/ FacadeChildExit

FacadeSpec == FacadeInit /\ [][FacadeNext]_vars

(* ------------------- the scrollback, row by row ----------------------- *)
\* The Screen Model fed through poll_output with its rows told apart, to
\* follow which rows the scrollback holds.

\* number of row tags: enough to tell the rows of a full scrollback and the
\* row entering it apart
TagMod == ScrollbackCap + 2

\* chunks that move rows into the scrollback: LF, CR LF, and 'a' (which
\* wraps at the right margin)
ScrollbackChunks == { << LF >>, << CR, LF >>, << 97 >> }

ScrollbackInit ==
    \E h \in AreaHeights, w \in AreaWidths, anchor \in BOOLEAN :
        /\ scr = [NewParser(term_inner(h), term_inner(w), anchor)
                    EXCEPT !.marks = TagMod]
        /\ ptySize = << term_inner(h), term_inner(w) >>
        /\ sp = spawn("none")
        /\ uiPc = "idle"
        /\ call = Untracked
        /\ prev = NoPrev
        /\ relayPc = "read"
        /\ buf = <<>>
        /\ lastRead = "none"
        /\ nReads = 0
        /\ nErrs = 0
        /\ ptyState = "open"
        /\ queue = <<>>
        /\ readLog = <<>>
        /\ fedLog = <<>>
        /\ lastOp = "spawn"
        /\ sendOffset = -1
        /\ key = NoKey
        /\ out = << >>

\* the relay thread queues one chunk and poll_output feeds it
ScrollbackPoll ==
    /\ \E c \in ScrollbackChunks : scr' = drain(Unmark(scr), << c >>)
    /\ lastOp' = "poll_output"
    /\ UNCHANGED << fedLog, ptySize, uiPc, sendOffset, ptyState, queue >>
    /\ UNCHANGED relayVars
    /\ UNCHANGED callVars
    /\ UNCHANGED keyVars

ScrollbackScrollUp ==
    /\ \E n \in ScrollAmounts : scr' = scroll_up(Unmark(scr), n)
    /\ lastOp' = "scroll_up"
    /\ UNCHANGED << fedLog, ptySize, uiPc, sendOffset, ptyState, queue >>
    /\ UNCHANGED relayVars
    /\ UNCHANGED callVars
    /\ UNCHANGED keyVars

ScrollbackScrollDown ==
    /\ \E n \in ScrollAmounts : scr' = scroll_down(Unmark(scr), n)
    /\ lastOp' = "scroll_down"
    /\ UNCHANGED << fedLog, ptySize, uiPc, sendOffset, ptyState, queue >>
    /\ UNCHANGED relayVars
    /\ UNCHANGED callVars
    /\ UNCHANGED keyVars

ScrollbackNext ==
    \/ ScrollbackPoll
    \/ ScrollbackScrollUp
    \/ ScrollbackScrollDown

ScrollbackSpec == ScrollbackInit /\ [][ScrollbackNext]_vars

(* ------------------- the Screen Model, chunk by chunk ------------------ *)
\* The Screen Model fed through poll_output one chunk at a time, rows told
\* apart by tags, on grids of at least one row and one column.  Here prev
\* holds the primary screen as it was when the alternate screen was entered,
\* and call the kind of the chunk fed last.

\* panel heights and widths (border included) giving grids of 1..2 rows and
\* 1..3 columns
ScreenHeights == { 3, 4 }
ScreenWidths == { 3, 4, 5 }

EnterAlt == << ESC, 91, 63, 49, 48, 52, 57, 104 >>
LeaveAlt == << ESC, 91, 63, 49, 48, 52, 57, 108 >>

\* well-formed output: 'a', LF, CR, enter / leave the alternate screen,
\* CSI 1 m (bold), CSI 0 m (reset attributes), CSI H (cursor home)
ScreenChunks ==
    { << 97 >>, << LF >>, << CR >>, EnterAlt, LeaveAlt,
      << ESC, 91, 49, 109 >>, << ESC, 91, 48, 109 >>, << ESC, 91, 72 >> }

\* unrecognized or malformed sequences: ESC x, CSI 9 z, CSI ? 7 z,
\* CSI ? 12 h, and a CSI cut short by the start of another sequence
Anomalies ==
    { << ESC, 120 >>, << ESC, 91, 57, 122 >>, << ESC, 91, 63, 55, 122 >>,
      << ESC, 91, 63, 49, 50, 104 >>, << ESC, 91, 57, ESC, 120 >> }

\* n printable characters followed by a newline
RECURSIVE Line(_)
Line(n) == IF n = 0 THEN << LF >> ELSE << 97 >> \o Line(n - 1)

NoAlt == [ state |-> "none", scrolled |-> FALSE, grid |-> << >>, hist |-> << >> ]

\* the chunk makes the grid of s scroll: a line feed on the bottom row
Scrolls(s, c) == s.row >= s.rows - 1 /\ \E i \in 1..Len(c) : c[i] = LF

\* prev after the chunk c took the screen from s to t
AltTrack(s, t, c) ==
    CASE ~s.alt /\ t.alt ->
           [ state |-> "in", scrolled |-> FALSE, grid |-> PrimaryGrid(s),
             hist |-> s.hist ]
      [] s.alt /\ t.alt ->
           [ prev EXCEPT !.scrolled = prev.scrolled \/ Scrolls(s, c) ]
      [] s.alt /\ ~t.alt -> [ prev EXCEPT !.state = "out" ]
      [] OTHER -> NoAlt

ScreenInit ==
    \E h \in ScreenHeights, w \in ScreenWidths, anchor \in BOOLEAN :
        /\ scr = [NewParser(term_inner(h), term_inner(w), anchor)
                    EXCEPT !.marks = TagMod]
        /\ ptySize = << term_inner(h), term_inner(w) >>
        /\ sp = spawn("none")
        /\ uiPc = "idle"
        /\ call = [ kind |-> "none" ]
        /\ prev = NoAlt
        /\ relayPc = "read"
        /\ buf = <<>>
        /\ lastRead = "none"
        /\ nReads = 0
        /\ nErrs = 0
        /\ ptyState = "open"
        /\ queue = <<>>
        /\ readLog = <<>>
        /\ fedLog = <<>>
        /\ lastOp = "spawn"
        /\ sendOffset = -1
        /\ key = NoKey
        /\ out = << >>

\* the relay thread queues the chunk c and poll_output feeds it
ScreenFeed(c, kind) ==
    /\ uiPc = "idle"
    /\ LET t == drain(Unmark(scr), << c >>)
       IN  /\ scr' = t
           /\ prev' = AltTrack(scr, t, c)
    /\ lastOp' = "poll_output"
    /\ call' = [ kind |-> kind ]
    /\ UNCHANGED << fedLog, ptySize, uiPc, sendOffset, ptyState, queue, sp >>
    /\ UNCHANGED relayVars
    /\ UNCHANGED keyVars

ScreenPoll == \E c \in ScreenChunks : ScreenFeed(c, "output")

\* a full line of text and a newline, written with the cursor at column 0
ScreenWriteLine ==
    /\ scr.col = 0
    /\ ~scr.wrap
    /\ scr.pst = "ground"
    /\ ScreenFeed(Line(scr.cols), "line")

ScreenAnomaly == \E c \in Anomalies : ScreenFeed(c, "anomaly")

ScreenNext ==
    \/ ScreenPoll
    \/ ScreenWriteLine
    \/ ScreenAnomaly

ScreenSpec == ScreenInit /\ [][ScreenNext]_vars

(* ---------------------------- key encoder ----------------------------- *)
\* Option values: << >> is None, << x >> is Some(x)
None == << >>
Some(x) == << x >>

KeyKinds == { "Press", "Repeat", "Release" }
Modifiers == { "CONTROL", "ALT", "SHIFT" }

\* characters of the key events: a z A Z x, the Ctrl table's @ [ \ ] ^ 6 _ and
\* space, 1 ` { (outside the table), and U+00E9, U+20AC, U+1F600 (2, 3 and
\* 4 bytes of UTF-8)
KeyChars ==
    { 97, 122, 65, 90, 120, 64, 91, 92, 93, 94, 54, 95, 32, 49, 96, 123,
      233, 8364, 128512 }

\* n of KeyCode::F(n)
FNumbers == 0..13

\* key codes other than Char and F that have no arm of their own
OtherCodes == { "Null", "CapsLock", "Menu" }

to_ascii_uppercase_identity(c) == c

\* char::to_ascii_uppercase
to_ascii_uppercase(c) == IF c >= 97 /\ c <= 122 THEN c - 32 ELSE c

\* the match on the upper-cased character of a Ctrl+character event
ctrl_code(upper) ==
    CASE upper = 64 -> Some(0)
      [] upper >= 65 /\ upper <= 90 -> Some(upper - 65 + 1)
      [] upper = 91 -> Some(27)
      [] upper = 92 -> Some(28)
      [] upper = 93 -> Some(29)
      [] upper = 94 \/ upper = 54 -> Some(30)
      [] upper = 95 -> Some(31)
      [] upper = 32 -> Some(0)
      [] OTHER -> None

\* c.to_string().into_bytes(): the UTF-8 encoding of the character
utf8(c) ==
    CASE c < 128 -> << c >>
      [] c >= 128 /\ c < 2048 -> << 192 + (c \div 64), 128 + (c % 64) >>
      [] c >= 2048 /\ c < 65536 ->
           << 224 + (c \div 4096), 128 + ((c \div 64) % 64), 128 + (c % 64) >>
      [] OTHER ->
           << 240 + (c \div 262144), 128 + ((c \div 4096) % 64),
              128 + ((c \div 64) % 64), 128 + (c % 64) >>

encode_char_ctrl_drops_alt(c, mods) ==
    LET ctrl == ctrl_code(to_ascii_uppercase(c))
    IN  IF "CONTROL" \in mods THEN (IF ctrl = None THEN None ELSE Some(ctrl))
        ELSE Some(IF "ALT" \in mods THEN << 27 >> \o utf8(c) ELSE utf8(c))

encode_char_alt_suffix(c, mods) ==
    LET ctrl == ctrl_code(to_ascii_uppercase(c))
    IN  IF "CONTROL" \in mods /\ ctrl = None THEN None
        ELSE LET bytes == IF "CONTROL" \in mods THEN ctrl ELSE utf8(c)
             IN  Some(IF "ALT" \in mods THEN bytes \o << 27 >> ELSE bytes)

encode_char_alt_partial(c, mods) ==
    LET ctrl == ctrl_code(to_ascii_uppercase(c))
        bytes == IF "CONTROL" \in mods THEN ctrl ELSE utf8(c)
    IN  IF "ALT" \in mods THEN Some(<< 27 >> \o bytes)
        ELSE IF bytes = << >> THEN None ELSE Some(bytes)

\* the KeyCode::Char arm: the control byte or the character's bytes, with
\* ESC in front when Alt is held; no output for Ctrl outside the table
encode_char(c, mods) ==
    LET ctrl == ctrl_code(to_ascii_uppercase(c))
    IN  IF "CONTROL" \in mods /\ ctrl = None THEN None
        ELSE LET bytes == IF "CONTROL" \in mods THEN ctrl ELSE utf8(c)
             IN  Some(IF "ALT" \in mods THEN << 27 >> \o bytes ELSE bytes)

\* the arms of the named keys
NamedKeys ==
    [ Enter |-> << 13 >>, Backspace |-> << 127 >>, Tab |-> << 9 >>,
      BackTab |-> << 27, 91, 90 >>, Esc |-> << 27 >>,
      Left |-> << 27, 91, 68 >>, Right |-> << 27, 91, 67 >>,
      Up |-> << 27, 91, 65 >>, Down |-> << 27, 91, 66 >>,
      Home |-> << 27, 91, 72 >>, End |-> << 27, 91, 70 >>,
      PageUp |-> << 27, 91, 53, 126 >>, PageDown |-> << 27, 91, 54, 126 >>,
      Delete |-> << 27, 91, 51, 126 >>, Insert |-> << 27, 91, 50, 126 >> ]

f_seq_contiguous(n) ==
    IF n <= 4 THEN << 27, 79, 79 + n >>
    ELSE << 27, 91, 48 + ((10 + n) \div 10), 48 + ((10 + n) % 10), 126 >>

\* the xterm sequences of F1..F12
f_seq(n) ==
    CASE n = 1 -> << 27, 79, 80 >>
      [] n = 2 -> << 27, 79, 81 >>
      [] n = 3 -> << 27, 79, 82 >>
      [] n = 4 -> << 27, 79, 83 >>
      [] n = 5 -> << 27, 91, 49, 53, 126 >>
      [] n = 6 -> << 27, 91, 49, 55, 126 >>
      [] n = 7 -> << 27, 91, 49, 56, 126 >>
      [] n = 8 -> << 27, 91, 49, 57, 126 >>
      [] n = 9 -> << 27, 91, 50, 48, 126 >>
      [] n = 10 -> << 27, 91, 50, 49, 126 >>
      [] n = 11 -> << 27, 91, 50, 51, 126 >>
      [] n = 12 -> << 27, 91, 50, 52, 126 >>

encode_key_event_alt_named(k) ==
    IF k.kind \notin { "Press", "Repeat" } THEN None
    ELSE CASE k.code = "Char" -> encode_char(k.c, k.mods)
           [] k.code = "F" /\ k.n >= 1 /\ k.n <= 12 -> Some(f_seq(k.n))
           [] k.code \in DOMAIN NamedKeys ->
                Some(IF "ALT" \in k.mods THEN << 27 >> \o NamedKeys[k.code]
                     ELSE NamedKeys[k.code])
           [] OTHER -> None

encode_key_event_any_kind(k) ==
    CASE k.code = "Char" -> encode_char(k.c, k.mods)
      [] k.code = "F" /\ k.n >= 1 /\ k.n <= 12 -> Some(f_seq(k.n))
      [] k.code \in DOMAIN NamedKeys -> Some(NamedKeys[k.code])
      [] OTHER -> None

encode_key_event(k) ==
    IF k.kind \notin { "Press", "Repeat" } THEN None
    ELSE CASE k.code = "Char" -> encode_char(k.c, k.mods)
           [] k.code = "F" /\ k.n >= 1 /\ k.n <= 12 -> Some(f_seq(k.n))
           [] k.code \in DOMAIN NamedKeys -> Some(NamedKeys[k.code])
           [] OTHER -> None

\* the key events crossterm can deliver
KeyEvents ==
    [ kind : KeyKinds, code : { "Char" }, c : KeyChars, n : { 0 },
      mods : SUBSET Modifiers ]
    \cup [ kind : KeyKinds, code : { "F" }, c : { 0 }, n : FNumbers,
           mods : SUBSET Modifiers ]
    \cup [ kind : KeyKinds, code : DOMAIN NamedKeys \cup OtherCodes, c : { 0 },
           n : { 0 }, mods : SUBSET Modifiers ]

\* a key event arrives and is encoded
Encode ==
    /\ \E k \in KeyEvents :
          /\ key' = k
          /\ out' = encode_key_event(k)
    /\ UNCHANGED << ptyState, queue >>
    /\ UNCHANGED relayVars
    /\ UNCHANGED uiVars
    /\ UNCHANGED callVars

KeyNext == Encode

\* a session on the largest panel; no key event yet
KeyInit ==
    /\ Init
    /\ size(scr) = << 2, 2 >>
    /\ ~scr.anchor

KeySpec == KeyInit /\ [][KeyNext]_vars

(* ------------- the relay thread against a running poll ---------------- *)
\* The relay thread and poll_output step by step, with a shell that never
\* runs out of output: what was read is not logged, so a run can go on for
\* ever.  Here call holds the bookkeeping of the queue: had is the number of
\* chunks that were queued when the latest poll_output was entered, due the
\* number of those that have not been fed yet, mark is the place in the queue of one chunk that is
\* followed from its enqueue on (0: none), dropped tells whether the latest
\* send found the receiver gone.

\* chunks the shell produces here: a glyph, and CR LF
StreamChunks == { << 97 >>, << CR, LF >> }

StreamInit ==
    \E h \in AreaHeights, w \in AreaWidths, anchor \in BOOLEAN :
        /\ scr = NewParser(term_inner(h), term_inner(w), anchor)
        /\ ptySize = << term_inner(h), term_inner(w) >>
        /\ sp = spawn("none")
        /\ uiPc = "idle"
        /\ call = [ had |-> 0, due |-> 0, mark |-> 0, dropped |-> FALSE ]
        /\ prev = NoPrev
        /\ relayPc = "read"
        /\ buf = <<>>
        /\ lastRead = "none"
        /\ nReads = 0
        /\ nErrs = 0
        /\ ptyState = "open"
        /\ queue = <<>>
        /\ readLog = <<>>
        /\ fedLog = <<>>
        /\ lastOp = "spawn"
        /\ sendOffset = -1
        /\ key = NoKey
        /\ out = << >>

\* reader.read(&mut buf) returns Ok(n), n > 0; the shell writes on while
\* fewer than MaxQueue chunks are waiting
StreamRead ==
    /\ relayPc = "read"
    /\ ptyState = "open"
    /\ Len(queue) < MaxQueue
    /\ \E c \in StreamChunks : buf' = c
    /\ lastRead' = "data"
    /\ relayPc' = after_read("data")
    /\ UNCHANGED << nReads, nErrs, readLog, ptyState, queue >>
    /\ UNCHANGED uiVars
    /\ UNCHANGED callVars
    /\ UNCHANGED keyVars

\* let _ = tx.send(buf[..n].to_vec()): queued behind what is waiting, or
\* discarded when the receiver is gone
StreamSend ==
    /\ relayPc = "send"
    /\ can_send(queue)
    /\ queue' = IF alive THEN Append(queue, buf) ELSE queue
    /\ buf' = <<>>
    /\ relayPc' = after_send(alive)
    /\ \E follow \in BOOLEAN :
          call' = [call EXCEPT !.dropped = ~alive,
                               !.mark = IF alive /\ follow /\ call.mark = 0
                                        THEN Len(queue) + 1 ELSE call.mark]
    /\ UNCHANGED << lastRead, nReads, nErrs, readLog, ptyState, sp, prev >>
    /\ UNCHANGED uiVars
    /\ UNCHANGED keyVars

\* poll_output is entered
StreamPollBegin ==
    /\ uiPc = "idle"
    /\ uiPc' = "polling"
    /\ lastOp' = "poll_output"
    /\ scr' = Unmark(scr)
    /\ call' = [call EXCEPT !.had = Len(queue), !.due = Len(queue)]
    /\ UNCHANGED << fedLog, ptySize, sendOffset, ptyState, queue, sp, prev >>
    /\ UNCHANGED relayVars
    /\ UNCHANGED keyVars

\* try_read() returned Some(bytes): they go through the parser
StreamPollStep ==
    /\ uiPc = "polling"
    /\ queue # <<>>
    /\ LET r == try_read(queue)
       IN  /\ queue' = r.rest
           /\ scr' = process(scr, r.chunk)
    /\ call' = [call EXCEPT !.due = saturating_sub(call.due, 1),
                            !.mark = saturating_sub(call.mark, 1)]
    /\ UNCHANGED << fedLog, ptySize, uiPc, lastOp, sendOffset, ptyState, sp,
                    prev >>
    /\ UNCHANGED relayVars
    /\ UNCHANGED keyVars

StreamPollReturn_early ==
    /\ uiPc = "polling"
    /\ uiPc' = "idle"
    /\ UNCHANGED << fedLog, scr, ptySize, lastOp, sendOffset, ptyState, queue >>
    /\ UNCHANGED relayVars
    /\ UNCHANGED callVars
    /\ UNCHANGED keyVars

\* try_read() returned None: poll_output returns
StreamPollReturn ==
    /\ uiPc = "polling"
    /\ queue = <<>>
    /\ uiPc' = "idle"
    /\ UNCHANGED << fedLog, scr, ptySize, lastOp, sendOffset, ptyState, queue >>
    /\ UNCHANGED relayVars
    /\ UNCHANGED callVars
    /\ UNCHANGED keyVars

\* one turn of the loop of poll_output
StreamPoll == StreamPollStep \/ StreamPollReturn

\* one turn of the relay thread
StreamRelay == StreamRead \/ StreamSend \/ RelayReadEof

StreamNext ==
    \/ StreamRead
    \/ StreamSend
    \/ RelayReadEof
    \/ StreamPollBegin
    \/ StreamPollStep
    \/ StreamPollReturn
    \/ ChildExit
    \/ Teardown

StreamSpec == StreamInit /\ [][StreamNext]_vars

\* both threads keep being scheduled, and run_loop polls on every turn
StreamFairSpec ==
    /\ StreamSpec
    /\ WF_vars(StreamRelay)
    /\ WF_vars(StreamPollBegin)
    /\ WF_vars(StreamPoll)

(* ------------------------ key events in run_loop ---------------------- *)
\* What run_loop does with a key event.  Of the UI state only what decides
\* where a key goes is kept: the focus, the mode of the log panel and whether
\* a voice task is pending.  Here call holds that state and what the latest
\* key event led to: was is the focus the key found, op the facade call made
\* ("none": no call), n its argument, bytes what was handed to send_bytes.

\* characters of the key events: v a i d e / q y n
RouteChars == { 118, 97, 105, 100, 101, 47, 113, 121, 110 }

RouteCodes == { "Esc", "Enter", "Tab", "Up", "Down", "PageUp", "PageDown",
                "CapsLock" }

RouteEvents ==
    [ kind : { "Press", "Release" }, code : { "Char" }, c : RouteChars,
      n : { 0 }, mods : { { }, { "CONTROL" }, { "ALT" } } ]
    \cup [ kind : { "Press", "Release" }, code : { "F" }, c : { 0 },
           n : { 2 }, mods : { { }, { "CONTROL" }, { "ALT" } } ]
    \cup [ kind : { "Press", "Release" }, code : RouteCodes, c : { 0 },
           n : { 0 }, mods : { { }, { "CONTROL" }, { "ALT" } } ]

\* UiState::new: the terminal has the focus, no voice task
NewUi ==
    [ was |-> "Terminal", focus |-> "Terminal", mode |-> "Normal",
      voice |-> FALSE, op |-> "none", n |-> 0, bytes |-> << >> ]

IsChar(k, ch) == k.code = "Char" /\ k.c = ch

\* the key leads to no facade call
Consumed(ui) == [ui EXCEPT !.was = ui.focus, !.op = "none", !.n = 0,
                           !.bytes = << >>]

\* the Focus::Terminal arm: the scroll keys, and every other key through
\* encode_key_event to send_bytes
terminal_key(ui, k) ==
    LET u == Consumed(ui)
        bytes == encode_key_event(k)
    IN  CASE k.code = "Up" /\ "CONTROL" \in k.mods ->
               [u EXCEPT !.op = "scroll_up", !.n = 1]
          [] k.code = "Down" /\ "CONTROL" \in k.mods ->
               [u EXCEPT !.op = "scroll_down", !.n = 1]
          [] k.code = "PageUp" -> [u EXCEPT !.op = "scroll_up", !.n = 5]
          [] k.code = "PageDown" -> [u EXCEPT !.op = "scroll_down", !.n = 5]
          [] OTHER ->
               IF bytes # None
               THEN [u EXCEPT !.op = "send_bytes", !.bytes = bytes[1]]
               ELSE u

\* the Focus::LogInput arm, as far as it changes the mode or starts a voice
\* task; hasLogs: the log list has an entry to delete or edit
log_input_key(ui, k, hasLogs) ==
    LET u == Consumed(ui)
    IN  CASE ui.mode = "Normal" ->
               CASE IsChar(k, 105) -> [u EXCEPT !.mode = "EditingLog"]
                 [] IsChar(k, 100) /\ hasLogs -> [u EXCEPT !.mode = "ConfirmDelete"]
                 [] IsChar(k, 101) /\ hasLogs -> [u EXCEPT !.mode = "EditingLog"]
                 [] IsChar(k, 47) -> [u EXCEPT !.mode = "Searching"]
                 [] IsChar(k, 118) -> [u EXCEPT !.voice = TRUE]
                 [] OTHER -> u
          [] ui.mode \in { "Searching", "EditingLog" } ->
               IF k.code \in { "Esc", "Enter" } THEN [u EXCEPT !.mode = "Normal"]
               ELSE u
          [] OTHER -> u

\* Event::Key(key) in run_loop, top to bottom
handle_key(ui, k, hasLogs) ==
    LET u == Consumed(ui)
    IN  CASE ui.voice /\ IsChar(k, 118) -> u
          [] ui.mode = "ConfirmDelete" ->
               IF IsChar(k, 121) \/ IsChar(k, 110) \/ k.code = "Esc"
               THEN [u EXCEPT !.mode = "Normal"] ELSE u
          [] k.code = "Esc"
               /\ ~(ui.focus = "LogInput"
                    /\ ui.mode \in { "EditingLog", "ConfirmDelete", "Searching" }) ->
               [u EXCEPT !.focus = IF ui.focus = "Terminal" THEN "LogInput"
                                   ELSE "Terminal"]
          [] IsChar(k, 113) /\ ui.focus = "LogInput" /\ ui.mode = "Normal" ->
               [u EXCEPT !.op = "quit"]
          [] ui.focus = "Terminal" -> terminal_key(ui, k)
          [] OTHER -> log_input_key(ui, k, hasLogs)

\* the facade call a key event led to, made on the Screen Model
apply_op(s, ui) ==
    CASE ui.op = "scroll_up" -> scroll_up(Unmark(s), ui.n)
      [] ui.op = "scroll_down" -> scroll_down(Unmark(s), ui.n)
      [] ui.op = "send_bytes" -> send_bytes(Unmark(s))
      [] OTHER -> s

\* a session on the largest panel, the UI as UiState::new leaves it
RouteInit ==
    \E h \in AreaHeights, w \in AreaWidths, anchor \in BOOLEAN :
        /\ scr = NewParser(term_inner(h), term_inner(w), anchor)
        /\ ptySize = << term_inner(h), term_inner(w) >>
        /\ sp = spawn("none")
        /\ uiPc = "idle"
        /\ size(scr) = << 2, 2 >>
        /\ ~anchor
        /\ call = NewUi
        /\ prev = NoPrev
        /\ relayPc = "read"
        /\ buf = <<>>
        /\ lastRead = "none"
        /\ nReads = 0
        /\ nErrs = 0
        /\ ptyState = "open"
        /\ queue = <<>>
        /\ readLog = <<>>
        /\ fedLog = <<>>
        /\ lastOp = "spawn"
        /\ sendOffset = -1
        /\ key = NoKey
        /\ out = << >>

\* event::read() returned a key event
RouteKey ==
    /\ uiPc = "idle"
    /\ \E k \in RouteEvents, hasLogs \in BOOLEAN :
          LET r == handle_key(call, k, hasLogs)
          IN  /\ key' = k
              /\ call' = r
              /\ out' = IF r.op = "send_bytes" THEN Some(r.bytes) ELSE None
              /\ scr' = apply_op(scr, r)
              /\ lastOp' = IF r.op \in { "none", "quit" } THEN lastOp ELSE r.op
              /\ uiPc' = IF r.op = "quit" THEN "exited" ELSE uiPc
    /\ UNCHANGED << fedLog, ptySize, sendOffset, ptyState, queue, sp, prev >>
    /\ UNCHANGED relayVars

\* the voice thread has delivered its result: the task is over
VoiceResult ==
    /\ uiPc = "idle"
    /\ call.voice
    /\ call' = [call EXCEPT !.voice = FALSE]
    /\ UNCHANGED << ptyState, queue, sp, prev >>
    /\ UNCHANGED relayVars
    /\ UNCHANGED uiVars
    /\ UNCHANGED keyVars

RouteNext ==
    \/ RouteKey
    \/ VoiceResult

RouteSpec == RouteInit /\ [][RouteNext]_vars

(* ------------------- TerminalRunner, the line buffer ------------------ *)
\* TerminalRunner: the command thread sends output lines over a channel,
\* poll_output moves them into a buffer of at most max_lines lines, scroll
\* counts lines up from the newest one.  Lines are told apart by tags that
\* count up modulo RunnerTags.  Here call holds the runner and the latest
\* call on it: buffer, scroll, rx (the lines in the channel), next (the tag of
\* the line sent next), cmds (commands sent and not finished), op, arg, and
\* visible (what the latest visible_lines returned).

\* number of line tags: the lines of a full buffer and of a full channel
\* are all told apart
RunnerTags == 2 * MaxLines + 3

\* arguments given to scroll_up, scroll_down and visible_lines
RunnerAmounts == { 0, 1, 2, UsizeMax }

last_lines(b, n) == SubSeq(b, Len(b) - Min(Len(b), n) + 1, Len(b))

push_output_drops_newest(r, line) ==
    LET b == IF Len(r.buffer) + 1 > MaxLines
             THEN SubSeq(r.buffer, 1, MaxLines - 1) \o << line >>
             ELSE Append(r.buffer, line)
        max_scroll == saturating_sub(Len(b), 1)
    IN  [r EXCEPT !.buffer = b,
                  !.scroll = IF r.scroll > max_scroll THEN max_scroll
                             ELSE r.scroll]

\* TerminalRunner::push_output
push_output(r, line) ==
    LET pushed == Append(r.buffer, line)
        b == IF Len(pushed) > MaxLines THEN Tail(pushed) ELSE pushed
        max_scroll == saturating_sub(Len(b), 1)
    IN  [r EXCEPT !.buffer = b,
                  !.scroll = IF r.scroll > max_scroll THEN max_scroll
                             ELSE r.scroll]

\* TerminalRunner::poll_output: every line in the channel, oldest first
RECURSIVE runner_poll_output(_)
runner_poll_output(r) ==
    IF r.rx = << >> THEN r
    ELSE runner_poll_output(push_output([r EXCEPT !.rx = Tail(r.rx)], Head(r.rx)))

runner_scroll_up_unclamped(r, sum) == [r EXCEPT !.scroll = sum]

\* TerminalRunner::scroll_up, sum being what self.scroll + amount gave
runner_scroll_up(r, sum) ==
    LET max_scroll == saturating_sub(Len(r.buffer), 1)
    IN  [r EXCEPT !.scroll = Min(sum, max_scroll)]

\* TerminalRunner::scroll_down
runner_scroll_down(r, amount) ==
    [r EXCEPT !.scroll = saturating_sub(r.scroll, amount)]

\* TerminalRunner::visible_lines
visible_lines(r, height) ==
    IF height = 0 THEN << >>
    ELSE LET total == Len(r.buffer)
             end == saturating_sub(total, r.scroll)
             start == saturating_sub(end, height)
         IN  SubSeq(r.buffer, start + 1, start + saturating_sub(end, start))

\* TerminalRunner::new: the buffer holds the "Shell started" line
NewRunner ==
    [ buffer |-> << 0 >>, scroll |-> 0, rx |-> << >>, next |-> 1, cmds |-> 0,
      op |-> "new", arg |-> 0, visible |-> << >> ]

\* the call that is recorded as the latest one
Called(r, op, arg) == [r EXCEPT !.op = op, !.arg = arg, !.visible = << >>]

\* a runner next to a session on the largest panel
RunnerInit ==
    \E h \in AreaHeights, w \in AreaWidths, anchor \in BOOLEAN :
        /\ scr = NewParser(term_inner(h), term_inner(w), anchor)
        /\ size(scr) = << 2, 2 >>
        /\ ~anchor
        /\ ptySize = << term_inner(h), term_inner(w) >>
        /\ sp = spawn("none")
        /\ uiPc = "idle"
        /\ call = NewRunner
        /\ prev = NoPrev
        /\ relayPc = "read"
        /\ buf = <<>>
        /\ lastRead = "none"
        /\ nReads = 0
        /\ nErrs = 0
        /\ ptyState = "open"
        /\ queue = <<>>
        /\ readLog = <<>>
        /\ fedLog = <<>>
        /\ lastOp = "spawn"
        /\ sendOffset = -1
        /\ key = NoKey
        /\ out = << >>

\* what the runner actions leave alone
RunnerFrame ==
    /\ UNCHANGED << ptyState, queue, sp, prev >>
    /\ UNCHANGED relayVars
    /\ UNCHANGED uiVars
    /\ UNCHANGED keyVars

\* run_command: an empty command is dropped, any other is sent to the
\* command thread
RunnerRunCommand ==
    /\ call.op # "panicked"
    /\ \E empty \in BOOLEAN :
          call' = [Called(call, "run_command", 0)
                     EXCEPT !.cmds = IF empty THEN call.cmds ELSE 1]
    /\ RunnerFrame

\* command_loop sends a line of the running command's output
RunnerOutput ==
    /\ call.cmds > 0
    /\ Len(call.rx) <= MaxLines
    /\ call' = [call EXCEPT !.rx = Append(call.rx, call.next),
                            !.next = (call.next + 1) % RunnerTags]
    /\ RunnerFrame

\* command_loop has sent the last line of the commands it was given
RunnerCommandDone ==
    /\ call.cmds > 0
    /\ call' = [call EXCEPT !.cmds = 0]
    /\ RunnerFrame

RunnerPoll ==
    /\ call.op # "panicked"
    /\ call' = Called(runner_poll_output(call), "poll_output", Len(call.rx))
    /\ RunnerFrame

\* scroll_up: self.scroll + amount wraps around in a release build and
\* panics in a debug build when it does not fit a usize
RunnerScrollUp ==
    /\ call.op # "panicked"
    /\ \E amount \in RunnerAmounts :
          IF call.scroll + amount <= UsizeMax
          THEN call' = Called(runner_scroll_up(call, call.scroll + amount),
                              "scroll_up", amount)
          ELSE \/ call' = Called(runner_scroll_up(call,
                              (call.scroll + amount) % (UsizeMax + 1)),
                              "scroll_up", amount)
               \/ call' = Called(call, "panicked", amount)
    /\ RunnerFrame

RunnerScrollDown ==
    /\ call.op # "panicked"
    /\ \E amount \in RunnerAmounts :
          call' = Called(runner_scroll_down(call, amount), "scroll_down", amount)
    /\ RunnerFrame

RunnerVisibleLines ==
    /\ call.op # "panicked"
    /\ \E height \in RunnerAmounts :
          call' = [Called(call, "visible_lines", height)
                     EXCEPT !.visible = visible_lines(call, height)]
    /\ RunnerFrame

RunnerNext ==
    \/ RunnerRunCommand
    \/ RunnerOutput
    \/ RunnerCommandDone
    \/ RunnerPoll
    \/ RunnerScrollUp
    \/ RunnerScrollDown
    \/ RunnerVisibleLines

RunnerSpec == RunnerInit /\ [][RunnerNext]_vars

TypeOK ==
    /\ relayPc \in { "read", "send", "sleep", "done" }
    /\ lastRead \in { "none", "data", "err", "eof" }
    /\ nReads \in 0..MaxReads
    /\ nErrs \in 0..MaxErrs
    /\ ptyState \in { "open", "closed" }
    /\ uiPc \in { "idle", "polling", "exited", "failed" }
    /\ scr.off \in Nat
    /\ scr.sb \in 0..ScrollbackCap

(* ------------------------------ claims -------------------------------- *)
\* what the relay thread has read is exactly what has been fed, what is
\* queued and what it holds between read and send, in that order
Conserved == readLog = fedLog \o Flatten(queue) \o buf

\* C1: at every moment the bytes fed to the Screen Model, concatenated, are a
\* prefix of the bytes the relay thread has read, concatenated: nothing is
\* reordered, duplicated, skipped or mixed in from another source
C1_FedIsPrefixOfRead == IsPrefix(fedLog, readLog)

C1_Witness ==
    /\ Len(fedLog) >= 2
    /\ Len(readLog) > Len(fedLog)
    /\ lastOp = "send_bytes"

\* C2: the enqueue step never waits for the consumer: whatever the queue
\* length, a chunk that was read can be sent at once, the send appends it to
\* the queue and returns to reading, and while the session is alive no chunk
\* that was read is missing from fed + queued + held
C2_EnqueueNeverBlocked ==
    /\ [](relayPc = "send" => ENABLED RelaySend)
    /\ [][(relayPc = "send" /\ relayPc' # "send")
            => (relayPc' = "read" /\ (alive => queue' = Append(queue, buf)))]_vars
    /\ [](alive => Conserved)

C2_Witness ==
    /\ Len(queue) >= 2
    /\ relayPc = "read"
    /\ alive

\* C3: after every poll_output and after every ensure_size the cursor of the
\* Screen Model lies inside the grid: 0 <= row < rows and 0 <= col < cols
C3_CursorInGrid ==
    lastOp \in { "poll_output", "ensure_size" }
        => /\ 0 <= scr.row /\ scr.row < scr.rows
           /\ 0 <= scr.col /\ scr.col < scr.cols

C5_SendKeepsOffset == lastOp = "send_bytes" => scr.off = sendOffset

C5_Witness ==
    /\ lastOp = "send_bytes"
    /\ sendOffset > 0
    /\ scr.off = sendOffset

\* C6: when send_bytes was called at offset 0, the offset is 0 throughout and
\* after the poll_output that follows, whatever that poll processes
C6_LiveStaysLive ==
    (lastOp = "poll_output" /\ sendOffset = 0) => scr.off = 0

C6_Witness ==
    /\ lastOp = "poll_output"
    /\ uiPc = "idle"
    /\ sendOffset = 0
    /\ scr.pushed
    /\ scr.sb > 0
    /\ scr.off = 0

\* C8: a read of length 0 ends the relay thread: it is done right after that
\* read, and once done it never reads, holds or enqueues anything again; the
\* UI sees no error, a poll_output on the empty queue just returns
C8_EofTerminatesRelay ==
    /\ [](lastRead = "eof" => relayPc = "done")
    /\ [][relayPc = "done"
            => /\ relayPc' = "done"
               /\ UNCHANGED << readLog, nReads, buf >>
               /\ Len(queue') <= Len(queue)]_vars
    /\ []((relayPc = "done" /\ uiPc = "polling" /\ queue = <<>>)
            => ENABLED PollReturn)

C8_Witness ==
    /\ relayPc = "done"
    /\ lastRead = "eof"
    /\ uiPc = "idle"
    /\ lastOp = "poll_output"
    /\ readLog # <<>>
    /\ fedLog = readLog

\* C9: once the session is torn down the relay thread eventually terminates,
\* and the UI thread never waits for it: teardown is possible wherever the
\* relay thread is
C9_TeardownEndsRelay ==
    /\ (~alive) ~> (relayPc = "done")
    /\ [](uiPc = "idle" => ENABLED Teardown)

C9_Witness ==
    /\ ~alive
    /\ relayPc = "done"
    /\ lastRead = "eof"
    /\ readLog # <<>>

\* C10: a failed read is never the end of the relay thread: that read
\* enqueues nothing, the thread sleeps and then reads again, however many
\* reads fail in a row, and only a read of length 0 ends the thread
C10_ReadErrorRetried ==
    /\ [][nErrs' = nErrs + 1
            => (relayPc' = "sleep" /\ UNCHANGED << queue, readLog, buf >>)]_vars
    /\ [][relayPc = "sleep" => relayPc' \in { "sleep", "read" }]_vars
    /\ [](relayPc = "done" => lastRead = "eof")
    /\ [](alive => Conserved)

C10_Witness ==
    /\ nErrs >= 2
    /\ relayPc = "send"
    /\ Len(fedLog) > 0

\* C11: when pty allocation or the launch of the shell fails, spawn returns
\* an error and nothing is left behind: no relay thread was started, no pty
\* and no child handle is owned by anything, and there is no session to use
C11_SpawnFailureLeavesNothing ==
    sp.failAt \in { "openpty", "spawn_command" }
        => /\ sp.result = "Err"
           /\ ~sp.thread
           /\ ~sp.shell
           /\ ~sp.pty
           /\ ~sp.child
           /\ uiPc = "failed"
           /\ lastOp = "spawn"

C11_Witness ==
    /\ sp.failAt = "spawn_command"
    /\ sp.result = "Err"
    /\ uiPc = "failed"

\* C12: a send_bytes whose write fails because the shell is gone returns
\* normally: the UI goes on, and the grid size, cursor, scrollback, viewport
\* offset and pending output queue are what they were before the call
C12_FailedWriteDropped ==
    [][(FacadeSendBytes /\ ptyState = "closed")
         => /\ call'.wrote = "failed"
            /\ uiPc' = "idle"
            /\ scr' = Unmark(scr)
            /\ queue' = queue
            /\ ptySize' = ptySize]_vars

C12_Witness ==
    /\ lastOp = "send_bytes"
    /\ call.wrote = "failed"
    /\ uiPc = "idle"
    /\ queue # << >>
    /\ scr.off > 0

\* C13: ensure_size(r, c) at a Screen Model size of (r, c) asks nothing of
\* the shell or the parser (no pty resize, no reflow) and leaves offset,
\* grid size, cursor and scrollback as they were; and whatever the size, a
\* second ensure_size(r, c) right after the first asks nothing and changes
\* nothing
C13_SameSizeIsNoOp ==
    /\ [][(FacadeEnsureSize /\ call'.req = size(scr))
            => /\ call'.calls = << >>
               /\ scr' = Unmark(scr)
               /\ ptySize' = ptySize]_vars
    /\ [](\A h \in AreaHeights, w \in AreaWidths :
            LET rows == term_inner(h)
                cols == term_inner(w)
                once == ensure_size(scr, rows, cols)
            IN  /\ ensure_size_calls(once, rows, cols) = << >>
                /\ ensure_size(once, rows, cols) = once)

C13_Witness ==
    /\ lastOp = "ensure_size"
    /\ call.calls = << >>
    /\ call.req = size(scr)
    /\ scr.off > 0
    /\ scr.row > 0

\* C14: ensure_size with a size other than the Screen Model's resizes the
\* pty, then reflows the Screen Model, then re-clamps the offset, in that
\* order; afterwards the offset is min(offset before, scrollback length after
\* the reflow), so it is positive whenever that minimum is, and the scrollback
\* is as long as before
C14_ResizeKeepsOffset ==
    [][(FacadeEnsureSize /\ call'.req # size(scr))
         => /\ call'.calls = << "shell.resize", "parser.set_size",
                                "parser.set_scrollback" >>
            /\ ptySize' = call'.req
            /\ size(scr') = call'.req
            /\ scr'.sb = scr.sb
            /\ scr'.off = Min(scr.off, scr'.sb)
            /\ (Min(scr.off, scr'.sb) > 0 => scr'.off > 0)]_vars

C14_Witness ==
    /\ lastOp = "ensure_size"
    /\ Len(call.calls) = 3
    /\ call.off = 2
    /\ scr.off = 2
    /\ scr.sb = 2

\* C15: in a session that was spawned, size() is the size given to the most
\* recent ensure_size (to spawn when there was none) and is the size most
\* recently requested of the pty, whether or not the shell is still there to
\* be resized
C15_SizeIsLastRequested ==
    sp.result = "Ok"
        => /\ size(scr) = call.req
           /\ ptySize = call.req

C15_Witness ==
    /\ sp.result = "Ok"
    /\ ptyState = "closed"
    /\ lastOp = "ensure_size"
    /\ Len(call.calls) = 3
    /\ size(scr) = << 0, 2 >>

\* C16: scroll_up(n) at offset o with L rows of scrollback sets the offset to
\* min(o + n, L), also when o + n exceeds the largest usize; scroll_down(n)
\* sets it to max(o - n, 0); neither changes anything else of the Screen
\* Model (grid size, cursor, scrollback)
C16_ScrollClamps ==
    /\ [][FacadeScrollUp
            => scr' = [Unmark(scr) EXCEPT
                          !.off = Min(scr.off + call'.n, scr.sb)]]_vars
    /\ [][FacadeScrollDown
            => scr' = [Unmark(scr) EXCEPT
                          !.off = Max(scr.off - call'.n, 0)]]_vars

C16_Witness ==
    /\ lastOp = "scroll_up"
    /\ call.n = UsizeMax
    /\ call.off > 0
    /\ scr.off = scr.sb
    /\ scr.off > call.off

\* C17: scroll_up(n) called at offset 0 and followed at once by
\* scroll_down(n) leaves the offset at 0 whenever the scrollback holds at
\* least n rows
C17_UpThenDownIsLive ==
    ( /\ lastOp = "scroll_down"
      /\ prev.op = "scroll_up"
      /\ prev.off = 0
      /\ prev.n = call.n
      /\ scr.sb >= call.n )
        => scr.off = 0

C17_Witness ==
    /\ lastOp = "scroll_down"
    /\ prev.op = "scroll_up"
    /\ prev.off = 0
    /\ prev.n = 2
    /\ call.n = 2
    /\ call.off = 2
    /\ scr.sb >= 2
    /\ scr.off = 0

\* C18: the viewport leaves Live (offset 0) for Scrolled (offset > 0) only
\* in a scroll_up; send_bytes, poll_output, ensure_size and scroll_down
\* called at offset 0 leave it at 0; and a scroll_down by at least the
\* current offset takes a Scrolled viewport back to Live
C18_ViewportStateMachine ==
    /\ [][(scr.off = 0 /\ scr'.off > 0) => FacadeScrollUp]_vars
    /\ [][( /\ scr.off = 0
             /\ \/ FacadeSendBytes
                \/ FacadePollOutput
                \/ FacadeEnsureSize
                \/ FacadeScrollDown )
            => scr'.off = 0]_vars
    /\ [][(FacadeScrollDown /\ scr.off > 0 /\ call'.n >= scr.off)
            => scr'.off = 0]_vars

C18_Witness ==
    /\ lastOp = "scroll_down"
    /\ prev.op = "none"
    /\ call.off = 1
    /\ call.n = 5
    /\ scr.off = 0
    /\ scr.sb = 2

\* C19: cursor_state() returns no cursor exactly when the viewport offset is
\* positive or the Screen Model's cursor is hidden; otherwise it returns the
\* Screen Model's cursor row and column with draw = true, and no returned
\* cursor has draw = false
C19_CursorState ==
    LET c == cursor_state(scr)
    IN  /\ (c = << >>) <=> (scr.off > 0 \/ scr.hide)
        /\ c # << >> => /\ Len(c) = 1
                        /\ c[1].draw = TRUE
                        /\ c[1].row = scr.row
                        /\ c[1].col = scr.col

C19_Witness ==
    /\ lastOp = "poll_output"
    /\ scr.hide
    /\ scr.off = 0
    /\ scr.sb > 0
    /\ cursor_state(scr) = << >>

\* C20: the scrollback never holds more rows than its capacity; a row
\* pushed below capacity is appended as the newest row, a row pushed at
\* capacity drops exactly the oldest row and leaves the others in their
\* order, and nothing else changes the rows of the scrollback
C20_ScrollbackFifo ==
    /\ [](Len(scr.hist) <= ScrollbackCap /\ scr.sb = Len(scr.hist))
    /\ [][(scr'.pushed /\ Len(scr.hist) = ScrollbackCap)
            => /\ Len(scr'.hist) = ScrollbackCap
               /\ SubSeq(scr'.hist, 1, ScrollbackCap - 1) = Tail(scr.hist)
               /\ scr'.hist[ScrollbackCap] = scr.next]_vars
    /\ [][(scr'.pushed /\ Len(scr.hist) < ScrollbackCap)
            => scr'.hist = Append(scr.hist, scr.next)]_vars
    /\ [][~scr'.pushed => scr'.hist = scr.hist]_vars

C20_Witness ==
    /\ lastOp = "poll_output"
    /\ scr.pushed
    /\ Len(scr.hist) = ScrollbackCap
    /\ scr.hist[1] = 2
    /\ scr.hist[ScrollbackCap] = (ScrollbackCap + 1) % TagMod

\* C21: while the alternate screen is active and right after it is left, the
\* rows of the primary grid and the rows of the scrollback are exactly what
\* they were when it was entered, whatever was processed in between,
\* output that scrolls the alternate grid included
C21_AltScreenIsolated ==
    prev.state \in { "in", "out" }
        => /\ PrimaryGrid(scr) = prev.grid
           /\ scr.hist = prev.hist
           /\ scr.sb = Len(prev.hist)

C21_Witness ==
    /\ prev.state = "out"
    /\ prev.scrolled
    /\ ~scr.alt
    /\ Len(prev.hist) > 0
    /\ scr.hist = prev.hist
    /\ PrimaryGrid(scr) = prev.grid

C23_AnomalySwallowed ==
    [][ScreenAnomaly
         => /\ scr' = [Unmark(scr) EXCEPT !.pst = "ground", !.param = 0,
                                          !.priv = FALSE]
            /\ uiPc' = "idle"
            /\ \A c \in ScreenChunks :
                  process(scr', c)
                    = process([Unmark(scr) EXCEPT !.pst = "ground", !.param = 0,
                                                  !.priv = FALSE], c)]_vars

C23_Witness ==
    /\ call.kind = "anomaly"
    /\ scr.pst = "ground"
    /\ ~scr.pushed
    /\ scr.attr = 1
    /\ scr.alt
    /\ scr.row = 1
    /\ scr.col = 2
    /\ Len(scr.hist) = 2

\* C24: whenever ensure_size changes the size, the parser of the Screen Model
\* is between escape sequences, not part-way through one, however the
\* shell's output was split into chunks
C24_ResizeBetweenSequences ==
    [][(lastOp' = "ensure_size" /\ size(scr') # size(scr))
         => scr.pst = "ground"]_vars

\* C25: a Release event yields no output whatever its key code and
\* modifiers; only Press and Repeat events yield bytes, and a Repeat event
\* yields what the same event yields as a Press
C25_ReleaseYieldsNothing ==
    /\ key.kind = "Release" => out = None
    /\ out # None => key.kind \in { "Press", "Repeat" }
    /\ key.kind = "Repeat"
         => out = encode_key_event([key EXCEPT !.kind = "Press"])

C25_Witness ==
    /\ key.kind = "Release"
    /\ key.code = "Enter"
    /\ key.mods = { }
    /\ out = None

\* C26: a pressed character with Ctrl and without Alt: a letter yields the
\* one byte of its position in the alphabet (1..26) in either case, '@'
\* yields 0x00, '[' 0x1B, '\' 0x1C, ']' 0x1D, and '^' and '6' yield 0x1E
C26_CtrlTable ==
    ( /\ key.kind = "Press"
      /\ key.code = "Char"
      /\ "CONTROL" \in key.mods
      /\ "ALT" \notin key.mods )
        => /\ (key.c >= 97 /\ key.c <= 122) => out = << << key.c - 96 >> >>
           /\ (key.c >= 65 /\ key.c <= 90) => out = << << key.c - 64 >> >>
           /\ key.c = 64 => out = << << 0 >> >>
           /\ key.c = 91 => out = << << 27 >> >>
           /\ key.c = 92 => out = << << 28 >> >>
           /\ key.c = 93 => out = << << 29 >> >>
           /\ key.c \in { 94, 54 } => out = << << 30 >> >>

C26_Witness ==
    /\ key.kind = "Press"
    /\ key.code = "Char"
    /\ key.c = 122
    /\ key.mods = { "CONTROL" }
    /\ out = << << 26 >> >>

\* C27: a pressed character with Ctrl (and without Alt) yields the one byte
\* 0x00 for '_' and for space
C27_CtrlUnderscoreSpace ==
    ( /\ key.kind = "Press"
      /\ key.code = "Char"
      /\ "CONTROL" \in key.mods
      /\ "ALT" \notin key.mods
      /\ key.c \in { 95, 32 } )
        => out = << << 0 >> >>

\* C28: a pressed character without Ctrl yields its UTF-8 bytes, preceded by
\* 0x1B when Alt is held and by nothing otherwise, for characters of one,
\* two, three and four bytes
C28_AltPrefix ==
    LET bytes == CASE key.c = 233 -> << 195, 169 >>
                   [] key.c = 8364 -> << 226, 130, 172 >>
                   [] key.c = 128512 -> << 240, 159, 152, 128 >>
                   [] OTHER -> << key.c >>
    IN  ( /\ key.kind = "Press"
          /\ key.code = "Char"
          /\ "CONTROL" \notin key.mods )
            => /\ "ALT" \in key.mods => out = << << 27 >> \o bytes >>
               /\ "ALT" \notin key.mods => out = << bytes >>

C28_Witness ==
    /\ key.kind = "Press"
    /\ key.code = "Char"
    /\ key.c = 8364
    /\ key.mods = { "ALT" }
    /\ out = << << 27, 226, 130, 172 >> >>

\* C29: a pressed named key yields the bytes of the table: Enter CR,
\* Backspace 0x7F, Tab HT, Esc ESC, the arrows ESC [ A/B/C/D, Home ESC [ H,
\* End ESC [ F, PageUp / PageDown ESC [ 5 ~ / 6 ~, Delete ESC [ 3 ~, Insert
\* ESC [ 2 ~, BackTab ESC [ Z, F1-F4 ESC O P/Q/R/S, F5-F12 ESC [ n ~ with
\* n = 15, 17, 18, 19, 20, 21, 23, 24
C29_NamedKeyTable ==
    LET table == [ Enter |-> << 13 >>, Backspace |-> << 127 >>,
                   Tab |-> << 9 >>, Esc |-> << 27 >>,
                   Left |-> << 27, 91, 68 >>, Right |-> << 27, 91, 67 >>,
                   Up |-> << 27, 91, 65 >>, Down |-> << 27, 91, 66 >>,
                   Home |-> << 27, 91, 72 >>, End |-> << 27, 91, 70 >>,
                   PageUp |-> << 27, 91, 53, 126 >>,
                   PageDown |-> << 27, 91, 54, 126 >>,
                   Delete |-> << 27, 91, 51, 126 >>,
                   Insert |-> << 27, 91, 50, 126 >>,
                   BackTab |-> << 27, 91, 90 >> ]
        fnum == << 15, 17, 18, 19, 20, 21, 23, 24 >>
    IN  key.kind = "Press"
          => /\ key.code \in DOMAIN table => out = << table[key.code] >>
             /\ (key.code = "F" /\ key.n \in 1..4)
                  => out = << << 27, 79, 79 + key.n >> >>
             /\ (key.code = "F" /\ key.n \in 5..12)
                  => out = << << 27, 91, 48 + (fnum[key.n - 4] \div 10),
                                  48 + (fnum[key.n - 4] % 10), 126 >> >>

C29_Witness ==
    /\ key.kind = "Press"
    /\ key.code = "F"
    /\ key.n = 11
    /\ key.mods = { "SHIFT" }
    /\ out = << << 27, 91, 50, 51, 126 >> >>

\* C30: a key event with no mapping yields no output: Ctrl with a character
\* outside the Ctrl table, with Alt or without, F(n) with n outside 1..12,
\* and every key code that is neither a character nor in the table
C30_UnmappedYieldsNothing ==
    LET inTable(c) == \/ (c >= 65 /\ c <= 90) \/ (c >= 97 /\ c <= 122)
                      \/ c \in { 64, 91, 92, 93, 94, 54, 95, 32 }
    IN  /\ (key.code = "Char" /\ "CONTROL" \in key.mods /\ ~inTable(key.c))
             => out = None
        /\ (key.code = "F" /\ key.n \notin 1..12) => out = None
        /\ key.code \in OtherCodes => out = None

C30_Witness ==
    /\ key.kind = "Press"
    /\ key.code = "Char"
    /\ key.c = 49
    /\ key.mods = { "CONTROL", "ALT" }
    /\ out = None

C32_PollReturns ==
    /\ (uiPc = "polling") ~> (uiPc = "idle")
    /\ []((uiPc = "polling" /\ queue = <<>>) => ENABLED StreamPollReturn)

\* C35: a send that finds the receiver gone does not end the relay thread:
\* the chunk is discarded, the thread goes back to reading, and it is done
\* only after a read of length 0
C35_FailedSendKeepsReading ==
    /\ [][(relayPc = "send" /\ relayPc' # "send" /\ ~alive)
            => (relayPc' = "read" /\ queue' = queue /\ buf' = <<>>
                /\ call'.dropped)]_vars
    /\ [](call.dropped => relayPc \in { "read", "done" })
    /\ [](relayPc = "done" => (lastRead = "eof" /\ ptyState = "closed"))

C35_Witness ==
    /\ call.dropped
    /\ ~alive
    /\ relayPc = "done"
    /\ lastRead = "eof"
    /\ queue = <<>>

\* C33: the rows and columns the UI hands to PtyTerminal::spawn and to every
\* ensure_size call are at least 1, whatever the size of the host terminal
C33_SizesPositive == call.req[1] >= 1 /\ call.req[2] >= 1

\* C34: whenever spawn returns an error, no relay thread is left running and
\* no shell that was launched is left without a handle that owns it
C34_SpawnErrorLeavesNothing ==
    sp.result = "Err" => (~sp.thread /\ (sp.shell => sp.child))

\* C38: while the terminal panel has the focus, Esc, PageUp, PageDown,
\* Ctrl+Up and Ctrl+Down are taken by the UI (focus switch, scroll by 5, 5, 1
\* and 1 rows) and never written to the shell; every other key event that
\* has an encoding leads to one send_bytes call with exactly the encoded
\* bytes, and a key event without an encoding leads to no write
C38_TerminalKeyRouting ==
    (key.kind # "none" /\ call.was = "Terminal")
        => CASE key.code = "Esc" ->
                  call.op = "none" /\ call.focus = "LogInput"
             [] key.code = "PageUp" -> call.op = "scroll_up" /\ call.n = 5
             [] key.code = "PageDown" -> call.op = "scroll_down" /\ call.n = 5
             [] key.code = "Up" /\ "CONTROL" \in key.mods ->
                  call.op = "scroll_up" /\ call.n = 1
             [] key.code = "Down" /\ "CONTROL" \in key.mods ->
                  call.op = "scroll_down" /\ call.n = 1
             [] OTHER ->
                  IF encode_key_event(key) # None
                  THEN /\ call.op = "send_bytes"
                       /\ << call.bytes >> = encode_key_event(key)
                       /\ call.focus = "Terminal"
                  ELSE call.op = "none"

\* C36: a pressed character with both Ctrl and Alt yields two bytes when the
\* character is in the Ctrl table, 0x1B and then the control code that Ctrl
\* alone yields for it, and no output when it is not in the table
C36_CtrlAltChar ==
    LET inTable == \/ (key.c >= 65 /\ key.c <= 90)
                   \/ (key.c >= 97 /\ key.c <= 122)
                   \/ key.c \in { 64, 91, 92, 93, 94, 54, 95, 32 }
        ctrlOnly == encode_key_event([key EXCEPT !.mods = key.mods \ { "ALT" }])
    IN  ( /\ key.kind = "Press"
          /\ key.code = "Char"
          /\ { "CONTROL", "ALT" } \subseteq key.mods )
            => IF inTable
               THEN /\ Len(out) = 1
                    /\ Len(out[1]) = 2
                    /\ out[1][1] = 27
                    /\ ctrlOnly = << << out[1][2] >> >>
                    /\ key.c \in { 97, 65 } => out[1][2] = 1
                    /\ key.c \in { 122, 90 } => out[1][2] = 26
                    /\ key.c = 64 => out[1][2] = 0
                    /\ key.c = 91 => out[1][2] = 27
                    /\ key.c = 93 => out[1][2] = 29
               ELSE out = None

C36_Witness ==
    /\ key.kind = "Press"
    /\ key.code = "Char"
    /\ key.c = 91
    /\ key.mods = { "CONTROL", "ALT" }
    /\ out = << << 27, 27 >> >>

\* C37: for a key that is not a character the output is that of the same key
\* without modifiers, whatever combination of Ctrl, Alt and Shift is held
\* (Alt+Enter yields 0x0D alone); for a character, Shift never changes the
\* output
C37_ModifiersIgnored ==
    /\ (key.kind # "none" /\ key.code # "Char")
         => out = encode_key_event([key EXCEPT !.mods = { }])
    /\ (key.kind = "Press" /\ key.code = "Enter") => out = << << 13 >> >>
    /\ key.code = "Char"
         => out = encode_key_event([key EXCEPT !.mods = key.mods \ { "SHIFT" }])

C37_Witness ==
    /\ key.kind = "Press"
    /\ key.code = "Enter"
    /\ key.mods = { "ALT" }
    /\ out = << << 13 >> >>

\* C39: the buffer of the TerminalRunner never holds more than max_lines
\* lines, and a poll_output leaves in it the latest max_lines lines of what
\* it held followed by what arrived, in that order: a line that arrives on a
\* full buffer pushes out exactly the oldest one
C39_BufferBounded ==
    /\ [](Len(call.buffer) <= MaxLines)
    /\ [][RunnerPoll
            => call'.buffer = last_lines(call.buffer \o call.rx, MaxLines)]_vars

C39_Witness ==
    /\ call.op = "poll_output"
    /\ call.arg >= 2
    /\ Len(call.buffer) = MaxLines
    /\ call.buffer[1] # 0
    /\ call.rx = << >>

\* C40: scroll is at least 0 and at most max(buffer length - 1, 0) after
\* every call, scroll_down stops at 0, and visible_lines(height) returns at
\* most height lines, which are consecutive lines of the buffer in its order,
\* the last of them scroll lines above the newest line
C40_ScrollWithinBuffer ==
    /\ [](0 <= call.scroll /\ call.scroll <= Max(Len(call.buffer) - 1, 0))
    /\ [][RunnerScrollDown
            => call'.scroll = Max(call.scroll - call'.arg, 0)]_vars
    /\ [](call.op = "visible_lines"
            => LET v == call.visible
                   last == Len(call.buffer) - call.scroll
               IN  /\ Len(v) <= call.arg
                   /\ Len(v) = Min(call.arg, last)
                   /\ v = SubSeq(call.buffer, last - Len(v) + 1, last))

C40_Witness ==
    /\ call.op = "visible_lines"
    /\ call.arg = 2
    /\ call.scroll = 1
    /\ Len(call.buffer) = MaxLines
    /\ call.buffer[1] # 0
    /\ call.visible = SubSeq(call.buffer, MaxLines - 2, MaxLines - 1)

====
